---- MODULE Spec2Model ----
(***************************************************************************)
(* Model of the Excel processor of cra_pm_score.                           *)
(*                                                                         *)
(*   src/api/main.py  POST /process (process), POST /merge (merge_archive),*)
(*                    parse_numeric_positions, get_df_by_position_stream   *)
(*   src/app.py       POST /process (process_files), the older variant     *)
(*                                                                         *)
(* Text is a sequence of one-character strings, a cell value is a record   *)
(* [t, s, n] (a string, an integer, pandas' NaN for an empty cell, or      *)
(* Python's None), a worksheet is a record with its title and the cells    *)
(* written on top of the sheet it was copied from.                         *)
(***************************************************************************)
EXTENDS Integers, Sequences, FiniteSets, TLC

VARIABLES
    variant,        \* "api" (src/api/main.py) or "app" (src/app.py)
    usecols,        \* form field usecols, text
    data_sheet,     \* the named sheet of data_file: [header, rows]
    template,       \* template_file: [present, ok, names]
    data_start,     \* form field data_start
    pc,             \* position of the /process handler
    positions,      \* api: parse_numeric_positions(usecols)
    usecols_list,   \* app: the stripped tokens of usecols
    df,             \* the extracted table: [cols, rows]
    outer_todo,     \* outer groups the for loop has still to visit
    k_value,        \* key of the outer group being processed
    wb,             \* workbook of the outer group being processed
    inner_todo,     \* inner groups the inner for loop has still to visit
    archive,        \* entries written to the archive so far
    raised,         \* an exception left the handler or one of its try blocks
    response,       \* what the /process handler answered
    archive_file,   \* /merge: the uploaded archive [file_name, entries]
    m_pc,           \* position of the /merge handler
    file_map,       \* /merge: entries kept by extract_archive, still to read
    all_frames,     \* /merge: blocks collected so far
    skipped,        \* /merge: entries whose reading raised
    m_response      \* what the /merge handler answered

procVars == <<variant, usecols, data_sheet, template, data_start, pc, positions,
              usecols_list, df, outer_todo, k_value, wb, inner_todo, archive,
              raised, response>>
mergeVars == <<archive_file, m_pc, file_map, all_frames, skipped, m_response>>
vars == <<procVars, mergeVars>>

(***************************************************************************)
(* Bounds of the model.                                                    *)
(***************************************************************************)
MaxLen == 4         \* longest usecols text enumerated for the parser
MaxRows == 2        \* most data rows of the data sheet
MaxEntries == 2     \* most entries of a merged archive

(***************************************************************************)
(* Text.                                                                   *)
(***************************************************************************)
Digits == {"0", "1", "2", "3", "4", "5", "6", "7", "8", "9"}

DigitVal == [c \in Digits |->
    CASE c = "0" -> 0 [] c = "1" -> 1 [] c = "2" -> 2 [] c = "3" -> 3
      [] c = "4" -> 4 [] c = "5" -> 5 [] c = "6" -> 6 [] c = "7" -> 7
      [] c = "8" -> 8 [] c = "9" -> 9]

DigitChar == [d \in 0..9 |-> CHOOSE c \in Digits : DigitVal[c] = d]

\* code points of the characters that occur in keys (for the sorted groupby)
CharOrd == [c \in {"/", "7", "A", "B", "S", "_", "a", "b", "x", "y", "z"} |->
    CASE c = "/" -> 47 [] c = "7" -> 55 [] c = "A" -> 65 [] c = "B" -> 66
      [] c = "S" -> 83 [] c = "_" -> 95 [] c = "a" -> 97 [] c = "b" -> 98
      [] c = "x" -> 120 [] c = "y" -> 121 [] c = "z" -> 122]

RECURSIVE SplitFrom(_, _, _, _, _)
SplitFrom(s, sep, i, cur, acc) ==
    IF i > Len(s) THEN Append(acc, cur)
    ELSE IF s[i] = sep THEN SplitFrom(s, sep, i + 1, <<>>, Append(acc, cur))
    ELSE SplitFrom(s, sep, i + 1, Append(cur, s[i]), acc)

\* str.split(sep): "" gives [""], "a,,b" gives ["a", "", "b"]
Split(s, sep) == SplitFrom(s, sep, 1, <<>>, <<>>)

RECURSIVE LStrip(_)
LStrip(s) == IF s # <<>> /\ Head(s) = " " THEN LStrip(Tail(s)) ELSE s

RECURSIVE RStrip(_)
RStrip(s) ==
    IF s # <<>> /\ s[Len(s)] = " " THEN RStrip(SubSeq(s, 1, Len(s) - 1)) ELSE s

\* str.strip()
Strip(s) == RStrip(LStrip(s))

\* str.isdigit(): not empty and every character a digit
IsDigit(s) == s # <<>> /\ \A i \in 1..Len(s) : s[i] \in Digits

RECURSIVE ToInt(_)
\* int(p) of a digit string
ToInt(s) ==
    IF s = <<>> THEN 0
    ELSE 10 * ToInt(SubSeq(s, 1, Len(s) - 1)) + DigitVal[s[Len(s)]]

RECURSIVE IntToStr(_)
\* str(n) of an integer n >= 0
IntToStr(n) ==
    IF n < 10 THEN <<DigitChar[n]>>
    ELSE Append(IntToStr(n \div 10), DigitChar[n % 10])

\* str.replace(old, new) for one-character old and new
Replace(s, old, new) == [i \in 1..Len(s) |-> IF s[i] = old THEN new ELSE s[i]]

\* the text made of n copies of character c
Rep(c, n) == [i \in 1..n |-> c]

(***************************************************************************)
(* parse_numeric_positions (src/api/main.py).                              *)
(***************************************************************************)
ParseOk(ps) == [ok |-> TRUE, positions |-> ps, err |-> "", token |-> <<>>]
ParseError(kind, p) == [ok |-> FALSE, positions |-> <<>>, err |-> kind, token |-> p]

\* mutant: the position stays 1-based
ZeroBasedForgotten(n) == n

\* positions.append(n - 1)
ZeroBased(n) == n - 1

RECURSIVE ParseLoop(_, _, _)
ParseLoop(parts, i, acc) ==
    IF i > Len(parts) THEN ParseOk(acc)
    ELSE LET p == parts[i] IN
         IF ~IsDigit(p) THEN ParseError("not_digit", p)
         ELSE IF ToInt(p) < 1 THEN ParseError("lt_1", p)
         ELSE ParseLoop(parts, i + 1, Append(acc, ZeroBased(ToInt(p))))

\* parts = [p.strip() for p in usecols_str.split(',') if p.strip() != '']
Parts(usecols_str) ==
    LET raw == Split(usecols_str, ",")
        stripped == [i \in 1..Len(raw) |-> Strip(raw[i])]
    IN SelectSeq(stripped, LAMBDA p : p # <<>>)

parse_numeric_positions(usecols_str) ==
    LET parts == Parts(usecols_str) IN
    IF parts = <<>> THEN ParseOk(<<>>) ELSE ParseLoop(parts, 1, <<>>)

(***************************************************************************)
(* Cell values.  pandas.read_excel gives NaN for an empty cell; None is    *)
(* what the handler itself substitutes for a column the row does not have. *)
(***************************************************************************)
StrV(s) == [t |-> "str", s |-> s, n |-> 0]
IntV(n) == [t |-> "int", s |-> <<>>, n |-> n]
NaN == [t |-> "nan", s |-> <<>>, n |-> 0]
None == [t |-> "none", s |-> <<>>, n |-> 0]

\* str(value)
PyStr(v) ==
    CASE v.t = "str" -> v.s
      [] v.t = "int" -> IntToStr(v.n)
      [] v.t = "nan" -> <<"n", "a", "n">>
      [] v.t = "none" -> <<"N", "o", "n", "e">>

(***************************************************************************)
(* The extracted table.                                                    *)
(***************************************************************************)
\* get_df_by_position_stream: the columns at `ps` (0-based), in that order
get_df_by_position_stream(sheet, ps) ==
    LET max_idx == Len(sheet.header) - 1
        bad == {i \in 1..Len(ps) : ps[i] > max_idx}
    IN IF bad # {}
       THEN [ok |-> FALSE, cols |-> <<>>, rows |-> <<>>]
       ELSE [ok |-> TRUE,
             cols |-> [i \in 1..Len(ps) |-> sheet.header[ps[i] + 1]],
             rows |-> [r \in 1..Len(sheet.rows) |->
                          [i \in 1..Len(ps) |-> sheet.rows[r][ps[i] + 1]]]]

\* get_df of app.py: read_excel(usecols=<list of column names>, header=0) keeps
\* the named columns in sheet order and raises when a name is not a column
get_df(sheet, names) ==
    LET have == {sheet.header[c] : c \in 1..Len(sheet.header)}
        want == {names[i] : i \in 1..Len(names)}
        keep == SelectSeq([c \in 1..Len(sheet.header) |-> c],
                          LAMBDA c : sheet.header[c] \in want)
    IN IF ~(want \subseteq have)
       THEN [ok |-> FALSE, cols |-> <<>>, rows |-> <<>>]
       ELSE [ok |-> TRUE,
             cols |-> [i \in 1..Len(keep) |-> sheet.header[keep[i]]],
             rows |-> [r \in 1..Len(sheet.rows) |->
                          [i \in 1..Len(keep) |-> sheet.rows[r][keep[i]]]]]

\* DataFrame.empty
IsEmpty(d) == Len(d.rows) = 0 \/ Len(d.cols) = 0

\* position (1-based) of the column called `name`
ColIndex(d, name) == CHOOSE i \in 1..Len(d.cols) : d.cols[i] = name

RECURSIVE FirstSeen(_, _)
FirstSeen(s, acc) ==
    IF s = <<>> THEN acc
    ELSE IF \E i \in 1..Len(acc) : acc[i] = Head(s)
         THEN FirstSeen(Tail(s), acc)
         ELSE FirstSeen(Tail(s), Append(acc, Head(s)))

RECURSIVE TextLess(_, _)
TextLess(a, b) ==
    IF a = <<>> THEN b # <<>>
    ELSE IF b = <<>> THEN FALSE
    ELSE IF Head(a) = Head(b) THEN TextLess(Tail(a), Tail(b))
    ELSE CharOrd[Head(a)] < CharOrd[Head(b)]

\* order of group keys under sort=True: numbers first, then text
KeyLess(a, b) ==
    CASE a.t = "int" /\ b.t = "int" -> a.n < b.n
      [] a.t = "int" /\ b.t = "str" -> TRUE
      [] a.t = "str" /\ b.t = "int" -> FALSE
      [] OTHER -> TextLess(a.s, b.s)

RECURSIVE Insert(_, _)
Insert(k, s) ==
    IF s = <<>> THEN <<k>>
    ELSE IF KeyLess(k, Head(s)) THEN <<k>> \o s
    ELSE <<Head(s)>> \o Insert(k, Tail(s))

RECURSIVE Sorted(_)
Sorted(s) == IF s = <<>> THEN <<>> ELSE Insert(Head(s), Sorted(Tail(s)))

\* keys of DataFrame.groupby on column ci, in iteration order; rows whose key is
\* NaN belong to no group (dropna=True)
GroupKeys(rows, ci, sort) ==
    LET keys == [r \in 1..Len(rows) |-> rows[r][ci]]
        seen == FirstSeen(SelectSeq(keys, LAMBDA k : k # NaN), <<>>)
    IN IF sort THEN Sorted(seen) ELSE seen

\* the rows of one group, in source order
GroupRows(rows, ci, key) == SelectSeq(rows, LAMBDA row : row[ci] = key)

\* df.groupby(..., sort=False) in api/main.py, df.groupby(...) in app.py
SortGroups == variant = "app"

\* column of the outer key: df.columns[-1] in api/main.py, usecols_list[-1] in app.py
OuterColOf(d) ==
    IF variant = "api" THEN Len(d.cols)
    ELSE ColIndex(d, usecols_list[Len(usecols_list)])

\* column of the inner key: df.columns[0] in api/main.py, usecols_list[0] in app.py
InnerColOf(d) == IF variant = "api" THEN 1 ELSE ColIndex(d, usecols_list[1])

sub_df(k) == GroupRows(df.rows, OuterColOf(df), k)
mini_df(k, d) == GroupRows(sub_df(k), InnerColOf(df), d)

(***************************************************************************)
(* Workbooks.  A sheet is [id, title, key, cells]: id tells the template   *)
(* sheet object ws_tpl ("tpl") from the other sheets of the template file  *)
(* ("other") and from the copies made for inner groups ("gen"); key is the *)
(* inner key a copy was made for; cells are the cells written on top of    *)
(* the copy, each with the template cell its style was copied from.        *)
(***************************************************************************)
SheetNameLimit == 31

\* characters openpyxl refuses in a sheet title
InvalidTitleChars == {"\\", "*", "?", ":", "/", "[", "]"}

TitleA == <<"A">>

Titles(w) == {w[i].title : i \in 1..Len(w)}

\* wb.remove(wb[title])
RemoveTitle(w, title) == SelectSeq(w, LAMBDA sh : sh.title # title)

\* wb.remove(ws_tpl)
RemoveTemplate(w) == SelectSeq(w, LAMBDA sh : sh.id # "tpl")

\* title of ws_tpl: wb['A'] if 'A' in wb.sheetnames else wb[wb.sheetnames[0]];
\* wb['A'] in app.py
TplTitle ==
    IF variant = "app" THEN TitleA
    ELSE IF \E i \in 1..Len(template.names) : template.names[i] = TitleA
         THEN TitleA ELSE template.names[1]

\* load_workbook(template bytes)
load_workbook ==
    [i \in 1..Len(template.names) |->
        [id |-> IF template.names[i] = TplTitle THEN "tpl" ELSE "other",
         title |-> template.names[i], key |-> None, cells |-> {}]]

\* if len(sheet_name_d) > 31: sheet_name_d = sheet_name_d[:31]
Truncate(s) == IF Len(s) > SheetNameLimit THEN SubSeq(s, 1, SheetNameLimit) ELSE s

\* sheet_name_d
SheetName(d_value) ==
    IF variant = "api" THEN Truncate(PyStr(d_value)) ELSE PyStr(d_value)

\* ws.title = sheet_name_d raises on these
InvalidTitle(name) == \E i \in 1..Len(name) : name[i] \in InvalidTitleChars

\* safe_name = str(k_value).replace('/', '_')
SafeName(k) == Replace(PyStr(k), "/", "_")

EntryName(k) == SafeName(k) \o <<".", "x", "l", "s", "x">>

\* mutant: the rows start one below data_start
OutputRowOffByOne(i) == data_start + i + 1

\* enumerate(mini_df.iterrows(), start=data_start): row i (0-based) of the group
OutputRow(i) == data_start + i

\* v1, v2, v3 of api/main.py: row.iloc[k] if len(row) > k else None
IlocOrNone(row, k) == IF Len(row) > k THEN row[k + 1] ELSE None

\* the value written to output column k (1..3) of a row
CellValue(row, k) ==
    IF variant = "api" THEN IlocOrNone(row, k)
    ELSE row[ColIndex(df, usecols_list[k + 1])]

\* `if v is not None` in api/main.py; app.py writes every cell
IsWritten(v) == IF variant = "api" THEN v # None ELSE TRUE

\* the cells the row loop writes: ws.cell(row=r_idx, column=k, value=v) and
\* copy_style_no_fill(ws_tpl.cell(row=data_start, column=k), c)
WrittenCells(rows) ==
    LET at == {p \in (1..Len(rows)) \X (1..3) : IsWritten(CellValue(rows[p[1]], p[2]))}
    IN {[row |-> OutputRow(p[1] - 1), col |-> p[2],
         value |-> CellValue(rows[p[1]], p[2]),
         style_from |-> <<data_start, p[2]>>] : p \in at}

(***************************************************************************)
(* Responses.                                                              *)
(***************************************************************************)
NoResponse == [kind |-> "none", status |-> 0, detail |-> <<>>, body |-> <<>>]
ErrorResponse(status, detail) ==
    [kind |-> "error", status |-> status, detail |-> detail, body |-> <<>>]
\* return {"error": ...} of app.py
JsonError == [kind |-> "json_error", status |-> 200, detail |-> <<>>, body |-> <<>>]
ArchiveResponse(entries) ==
    [kind |-> "archive", status |-> 200, detail |-> <<>>, body |-> entries]

\* mutant: a failing outer group is skipped and the loop goes on
GroupFailureSkips(todo) ==
    [pc |-> "loop", outer_todo |-> Tail(todo), response |-> NoResponse]

\* an exception inside the for loop over the outer groups leaves the handler
GroupFailure(todo) ==
    [pc |-> "error", outer_todo |-> todo, response |-> ErrorResponse(500, <<>>)]

(***************************************************************************)
(* POST /process: process (api/main.py) and process_files (app.py).        *)
(***************************************************************************)
\* api/main.py: positions = parse_numeric_positions(usecols), 400 on ValueError
Parse ==
    /\ pc = "start" /\ variant = "api"
    /\ LET r == parse_numeric_positions(usecols) IN
       IF r.ok
       THEN /\ positions' = r.positions
            /\ pc' = "parsed"
            /\ UNCHANGED <<raised, response>>
       ELSE /\ pc' = "error"
            /\ raised' = TRUE
            /\ response' = ErrorResponse(400, r.token)
            /\ UNCHANGED positions
    /\ UNCHANGED <<variant, usecols, data_sheet, template, data_start, usecols_list,
                   df, outer_todo, k_value, wb, inner_todo, archive, mergeVars>>

\* app.py: the template check and usecols_list = [col.strip() for col in usecols.split(',')]
SplitCols ==
    /\ pc = "start" /\ variant = "app"
    /\ IF ~template.present
       THEN /\ pc' = "done"
            /\ response' = JsonError
            /\ UNCHANGED usecols_list
       ELSE /\ pc' = "parsed"
            /\ usecols_list' = [i \in 1..Len(Split(usecols, ",")) |->
                                   Strip(Split(usecols, ",")[i])]
            /\ UNCHANGED response
    /\ UNCHANGED <<variant, usecols, data_sheet, template, data_start, positions,
                   df, outer_todo, k_value, wb, inner_todo, archive, raised, mergeVars>>

\* reading the table, the df.empty check, and the start of the outer for loop
Extract ==
    /\ pc = "parsed"
    /\ LET d == IF variant = "api"
                THEN get_df_by_position_stream(data_sheet, positions)
                ELSE get_df(data_sheet, usecols_list)
       IN IF ~d.ok \/ (variant = "api" /\ IsEmpty(d))
          THEN /\ pc' = "error"
               /\ raised' = TRUE
               /\ response' = ErrorResponse(IF variant = "api" THEN 400 ELSE 500, <<>>)
               /\ UNCHANGED <<df, outer_todo>>
          ELSE /\ pc' = "loop"
               /\ df' = [cols |-> d.cols, rows |-> d.rows]
               /\ outer_todo' = GroupKeys(d.rows, OuterColOf(d), SortGroups)
               /\ UNCHANGED <<raised, response>>
    /\ UNCHANGED <<variant, usecols, data_sheet, template, data_start, positions,
                   usecols_list, k_value, wb, inner_todo, archive, mergeVars>>

\* start of one outer group: load the template, find ws_tpl, group the rows
BeginGroup ==
    /\ pc = "loop" /\ outer_todo # <<>>
    /\ IF ~template.ok \/ (variant = "app" /\ TitleA \notin Titles(load_workbook))
       THEN /\ pc' = GroupFailure(outer_todo).pc
            /\ outer_todo' = GroupFailure(outer_todo).outer_todo
            /\ response' = GroupFailure(outer_todo).response
            /\ raised' = TRUE
            /\ UNCHANGED <<k_value, wb, inner_todo>>
       ELSE /\ pc' = "group"
            /\ k_value' = Head(outer_todo)
            /\ wb' = load_workbook
            /\ inner_todo' = GroupKeys(sub_df(Head(outer_todo)), InnerColOf(df), SortGroups)
            /\ UNCHANGED <<outer_todo, response, raised>>
    /\ UNCHANGED <<variant, usecols, data_sheet, template, data_start, positions,
                   usecols_list, df, archive, mergeVars>>

\* one inner group: name the sheet, drop a sheet of that name, copy ws_tpl,
\* rename the copy and write the rows
InnerGroup ==
    /\ pc = "group" /\ inner_todo # <<>>
    /\ LET d_value == Head(inner_todo)
           sheet_name_d == SheetName(d_value)
           kept == IF sheet_name_d \in Titles(wb) THEN RemoveTitle(wb, sheet_name_d) ELSE wb
       IN IF InvalidTitle(sheet_name_d) \/ (variant = "app" /\ Len(usecols_list) < 4)
          THEN /\ pc' = GroupFailure(outer_todo).pc
               /\ outer_todo' = GroupFailure(outer_todo).outer_todo
               /\ response' = GroupFailure(outer_todo).response
               /\ raised' = TRUE
               /\ UNCHANGED <<wb, inner_todo>>
          ELSE /\ wb' = Append(kept, [id |-> "gen", title |-> sheet_name_d, key |-> d_value,
                                      cells |-> WrittenCells(mini_df(k_value, d_value))])
               /\ inner_todo' = Tail(inner_todo)
               /\ UNCHANGED <<pc, outer_todo, response, raised>>
    /\ UNCHANGED <<variant, usecols, data_sheet, template, data_start, positions,
                   usecols_list, df, k_value, archive, mergeVars>>

\* the workbook without the template sheet: api/main.py removes the object ws_tpl
\* when a sheet has its title (a failing remove is swallowed), app.py removes
\* whichever sheet is called 'A'
WithoutTemplate(w) ==
    IF variant = "api"
    THEN IF TplTitle \in Titles(w) THEN RemoveTemplate(w) ELSE w
    ELSE IF TitleA \in Titles(w) THEN RemoveTitle(w, TitleA) ELSE w

\* end of one outer group: remove the template sheet, save, add the archive entry;
\* wb.save raises on a workbook without sheets
EndGroup ==
    /\ pc = "group" /\ inner_todo = <<>>
    /\ LET out == WithoutTemplate(wb) IN
       IF out = <<>>
       THEN /\ pc' = GroupFailure(outer_todo).pc
            /\ outer_todo' = GroupFailure(outer_todo).outer_todo
            /\ response' = GroupFailure(outer_todo).response
            /\ raised' = TRUE
            /\ UNCHANGED archive
       ELSE /\ pc' = "loop"
            /\ archive' = Append(archive, [name |-> EntryName(k_value), key |-> k_value,
                                           sheets |-> out])
            /\ outer_todo' = Tail(outer_todo)
            /\ UNCHANGED <<response, raised>>
    /\ UNCHANGED <<variant, usecols, data_sheet, template, data_start, positions,
                   usecols_list, df, k_value, wb, inner_todo, mergeVars>>

\* after the loop: return StreamingResponse(archive)
Respond ==
    /\ pc = "loop" /\ outer_todo = <<>>
    /\ pc' = "done"
    /\ response' = ArchiveResponse(archive)
    /\ UNCHANGED <<variant, usecols, data_sheet, template, data_start, positions,
                   usecols_list, df, outer_todo, k_value, wb, inner_todo, archive,
                   raised, mergeVars>>

(***************************************************************************)
(* Inputs of /process.                                                     *)
(***************************************************************************)
SeqsUpTo(S, n) == UNION {[1..k -> S] : k \in 0..n}

KA == StrV(<<"A">>)
KB == StrV(<<"B">>)
KS == StrV(<<"S">>)
KSlash == StrV(<<"a", "/", "b">>)
KUnder == StrV(<<"a", "_", "b">>)
KLong1 == StrV(Rep("x", SheetNameLimit) \o <<"y">>)
KLong2 == StrV(Rep("x", SheetNameLimit) \o <<"z">>)
K7 == IntV(7)
KS7 == StrV(<<"7">>)

\* the data sheet has columns A..K, named by their letters in the header row;
\* column D holds the inner key, column K the outer key, the others data
Header == <<<<"A">>, <<"B">>, <<"C">>, <<"D">>, <<"E">>, <<"F">>, <<"G">>,
            <<"H">>, <<"I">>, <<"J">>, <<"K">>>>

MakeRow(r, rec) ==
    [c \in 1..Len(Header) |->
        IF c = 4 THEN rec.inner
        ELSE IF c = 11 THEN rec.outer
        ELSE IF c \in rec.absent THEN NaN
        ELSE IntV(100 * r + c)]

MakeSheet(recs) ==
    [header |-> Header, rows |-> [r \in 1..Len(recs) |-> MakeRow(r, recs[r])]]

\* rows that vary the keys
KeyRows ==
    {[inner |-> i, outer |-> KB, absent |-> {}] :
        i \in {KA, KS, KLong1, KLong2, KSlash, K7, KS7, NaN}}
    \cup {[inner |-> KS, outer |-> o, absent |-> {}] : o \in {KA, KSlash, KUnder, NaN}}
    \cup {[inner |-> NaN, outer |-> KA, absent |-> {}]}

\* rows that vary the data cells
CellRows ==
    {[inner |-> i, outer |-> KB, absent |-> a] : i \in {KS, KS7}, a \in {{}, {5}, {6}}}

Txt4_5_6_9_11 == <<"4", ",", "5", ",", "6", ",", "9", ",", "1", "1">>
ApiUseCols ==
    {Txt4_5_6_9_11,
     <<"4", ",", "1", "1">>,
     <<"4", ",", "5", ",", "1", "1">>,
     <<"4", ",", "5", ",", "6", ",", "1", "1">>,
     <<"4", ",", "5", ",", "6", ",", "9", ",", "1", "0", ",", "1", "1">>,
     <<"1", "1">>,
     <<"4", ",", "1", "2">>,
     <<"4", ",", "x">>,
     <<>>}

TxtD_E_F_I_K == <<"D", ",", "E", ",", "F", ",", "I", ",", "K">>
AppUseCols ==
    {TxtD_E_F_I_K,
     <<"D", ",", "K">>,
     <<"D", ",", "E", ",", "F", ",", "K">>,
     <<"D", ",", "E", ",", "F", ",", "I", ",", "J", ",", "K">>,
     <<"D", ",", "Z">>}

Tpl(names) == [present |-> TRUE, ok |-> TRUE, names |-> names]
TplA == Tpl(<<TitleA>>)
TplCorrupt == [present |-> TRUE, ok |-> FALSE, names |-> <<>>]
TplMissing == [present |-> FALSE, ok |-> FALSE, names |-> <<>>]
Templates ==
    {TplA, Tpl(<<<<"T">>>>), Tpl(<<TitleA, <<"S">>>>), Tpl(<<<<"T">>, TitleA>>), TplCorrupt}

MergeIdle ==
    /\ archive_file = [file_name |-> <<>>, entries |-> <<>>]
    /\ m_pc = "idle"
    /\ file_map = <<>>
    /\ all_frames = <<>>
    /\ skipped = {}
    /\ m_response = NoResponse

ProcessStart ==
    /\ pc = "start"
    /\ positions = <<>>
    /\ usecols_list = <<>>
    /\ df = [cols |-> <<>>, rows |-> <<>>]
    /\ outer_todo = <<>>
    /\ k_value = None
    /\ wb = <<>>
    /\ inner_todo = <<>>
    /\ archive = <<>>
    /\ raised = FALSE
    /\ response = NoResponse

\* the default column spec, every table of key rows, every template
InitKeys ==
    /\ variant \in {"api", "app"}
    /\ usecols = (IF variant = "api" THEN Txt4_5_6_9_11 ELSE TxtD_E_F_I_K)
    /\ data_sheet \in {MakeSheet(recs) : recs \in SeqsUpTo(KeyRows, MaxRows)}
    /\ template \in Templates \cup (IF variant = "app" THEN {TplMissing} ELSE {})
    /\ data_start = 4

\* every column spec, every table of cell rows, the plain template
InitCells ==
    /\ variant \in {"api", "app"}
    /\ usecols \in (IF variant = "api" THEN ApiUseCols ELSE AppUseCols)
    /\ data_sheet \in {MakeSheet(recs) : recs \in SeqsUpTo(CellRows, MaxRows)}
    /\ template = TplA
    /\ data_start \in {2, 4}

Init == (InitKeys \/ InitCells) /\ ProcessStart /\ MergeIdle

Next == Parse \/ SplitCols \/ Extract \/ BeginGroup \/ InnerGroup \/ EndGroup \/ Respond

Spec == Init /\ [][Next]_vars

(***************************************************************************)
(* The parser alone: every text over a small alphabet, and the default.    *)
(***************************************************************************)
ParseAlphabet == {"0", "1", "2", ",", " ", "-", "a"}

InitParse ==
    /\ variant = "api"
    /\ usecols \in SeqsUpTo(ParseAlphabet, MaxLen) \cup {Txt4_5_6_9_11}
    /\ data_sheet = MakeSheet(<<>>)
    /\ template = TplA
    /\ data_start = 4
    /\ ProcessStart
    /\ MergeIdle

NextParse == Parse

SpecParse == InitParse /\ [][NextParse]_vars

(***************************************************************************)
(* Vocabulary of the properties of /process.                               *)
(***************************************************************************)
\* the extracted table's key columns: inner key first, outer key last
NCols == Len(df.cols)
OuterKeyOf(row) == row[NCols]
InnerKeyOf(row) == row[1]

\* the distinct outer-key values, and the distinct inner-key values of an outer group
OuterKeys == {OuterKeyOf(df.rows[r]) : r \in 1..Len(df.rows)} \ {NaN}
InnerKeys(k) ==
    {InnerKeyOf(df.rows[r]) : r \in {q \in 1..Len(df.rows) : OuterKeyOf(df.rows[q]) = k}}
    \ {NaN}

\* the rows of inner group d of outer group k, in source order
RowsOf(k, d) == SelectSeq(df.rows, LAMBDA row : OuterKeyOf(row) = k /\ InnerKeyOf(row) = d)

\* first row (1-based) that carries outer key k; that carries inner key d within k
FirstRow(k) == CHOOSE r \in 1..Len(df.rows) :
    /\ OuterKeyOf(df.rows[r]) = k
    /\ \A q \in 1..(r - 1) : OuterKeyOf(df.rows[q]) # k
FirstRowIn(k, d) == CHOOSE r \in 1..Len(df.rows) :
    /\ OuterKeyOf(df.rows[r]) = k /\ InnerKeyOf(df.rows[r]) = d
    /\ \A q \in 1..(r - 1) : ~(OuterKeyOf(df.rows[q]) = k /\ InnerKeyOf(df.rows[q]) = d)

\* every workbook produced so far with the outer key it was made for: the archive
\* entries, and the workbook of the group in progress
Workbooks ==
    {[key |-> archive[i].key, sheets |-> archive[i].sheets] : i \in 1..Len(archive)}
    \cup (IF pc = "group" THEN {[key |-> k_value, sheets |-> wb]} ELSE {})

GenSheets(w) == {w.sheets[j] : j \in {i \in 1..Len(w.sheets) : w.sheets[i].id = "gen"}}

Returned == pc = "done" /\ response.kind = "archive"

Min(a, b) == IF a < b THEN a ELSE b

(***************************************************************************)
(* C1.  Every archive returned by /process holds exactly one workbook per  *)
(* distinct outer-key value, and the workbook of outer key k holds exactly *)
(* one generated sheet per distinct inner-key value of k's rows, no sheet  *)
(* of an inner key of another group, and not the template sheet.           *)
(***************************************************************************)
C1_OneWorkbookPerOuterOneSheetPerInner ==
    Returned =>
        /\ Len(response.body) = Cardinality(OuterKeys)
        /\ \A k \in OuterKeys :
              Cardinality({i \in 1..Len(response.body) : response.body[i].key = k}) = 1
        /\ \A i \in 1..Len(response.body) :
              LET w == response.body[i] IN
              /\ \A d \in InnerKeys(w.key) :
                    Cardinality({sh \in GenSheets(w) : sh.key = d}) = 1
              /\ \A sh \in GenSheets(w) : sh.key \in InnerKeys(w.key)
              /\ \A j \in 1..Len(w.sheets) : w.sheets[j].id # "tpl"

(***************************************************************************)
(* C2.  Workbooks are added to the archive in the order in which their     *)
(* outer keys first appear in the rows, and the sheets of a workbook are   *)
(* generated in the order in which their inner keys first appear; the      *)
(* order is never that of the sorted keys.                                 *)
(***************************************************************************)
C2_FirstSeenOrder ==
    /\ \A i, j \in 1..Len(archive) :
          i < j => FirstRow(archive[i].key) < FirstRow(archive[j].key)
    /\ \A w \in Workbooks : \A i, j \in 1..Len(w.sheets) :
          (i < j /\ w.sheets[i].id = "gen" /\ w.sheets[j].id = "gen")
             => FirstRowIn(w.key, w.sheets[i].key) < FirstRowIn(w.key, w.sheets[j].key)

\* C2 for api/main.py alone (sort=False)
C2_FirstSeenOrderApi == variant = "api" => C2_FirstSeenOrder

(***************************************************************************)
(* C5.  Every sheet name the fan-out assigns has at most 31 characters: it *)
(* is the first 31 characters of the inner key's text when that is longer, *)
(* and the text unchanged otherwise.                                       *)
(***************************************************************************)
C5_SheetNameAtMost31 ==
    \A w \in Workbooks : \A sh \in GenSheets(w) :
        LET text == PyStr(sh.key) IN
        /\ Len(sh.title) <= 31
        /\ sh.title = [i \in 1..Min(31, Len(text)) |-> text[i]]

\* C5 for api/main.py alone
C5_SheetNameAtMost31Api == variant = "api" => C5_SheetNameAtMost31

(***************************************************************************)
(* C10.  The entry names of an archive produced by /process are pairwise   *)
(* distinct: two different outer keys never give the same entry name.      *)
(***************************************************************************)
C10_EntryNamesDistinct ==
    \A i, j \in 1..Len(archive) : i # j => archive[i].name # archive[j].name

(***************************************************************************)
(* Vocabulary of the parser's contract, stated on the text itself: a token *)
(* is a maximal comma-free stretch of the text, trimmed of the blanks at   *)
(* its ends, and not empty.                                                *)
(***************************************************************************)
\* <<a, b>>: the text's characters a..b form a trimmed non-empty token
IsToken(s, a, b) ==
    /\ 1 <= a /\ a <= b /\ b <= Len(s)
    /\ \A i \in a..b : s[i] # ","
    /\ s[a] # " " /\ s[b] # " "
    /\ \E l \in 1..a : /\ l = 1 \/ s[l - 1] = ","
                       /\ \A i \in l..(a - 1) : s[i] = " "
    /\ \E r \in b..Len(s) : /\ r = Len(s) \/ s[r + 1] = ","
                            /\ \A i \in (b + 1)..r : s[i] = " "

TokenSpans(s) == {p \in (1..Len(s)) \X (1..Len(s)) : IsToken(s, p[1], p[2])}

\* the tokens from left to right
TokensOf(s) ==
    [i \in 1..Cardinality(TokenSpans(s)) |->
        LET p == CHOOSE q \in TokenSpans(s) :
                    Cardinality({x \in TokenSpans(s) : x[1] < q[1]}) = i - 1
        IN [k \in 1..(p[2] - p[1] + 1) |-> s[p[1] + k - 1]]]

RECURSIVE Pow10(_)
Pow10(e) == IF e = 0 THEN 1 ELSE 10 * Pow10(e - 1)

RECURSIVE PlaceSum(_, _)
\* the decimal value of a digit string: the sum of digit * 10^place
PlaceSum(t, i) ==
    IF i > Len(t) THEN 0
    ELSE DigitVal[t[i]] * Pow10(Len(t) - i) + PlaceSum(t, i + 1)

\* a decimal integer >= 1
IsPositiveDecimal(t) ==
    /\ \A i \in 1..Len(t) : t[i] \in Digits
    /\ \E i \in 1..Len(t) : t[i] # "0"

(***************************************************************************)
(* Cells of generated sheets.                                              *)
(***************************************************************************)
\* the cell written at (r, c) of sheet sh, if any
CellsAt(sh, r, c) == {x \in sh.cells : x.row = r /\ x.col = c}

\* generated sheet sh of workbook w holds, for each row i (0-based) of its inner
\* group and each j in 1..width, the value of column-spec position j at output
\* row data_start + i, output column j, styled from the template row, and no
\* other written cell
HoldsColumns(w, sh, width) ==
    LET rows == RowsOf(w.key, sh.key) IN
    /\ \A i \in 0..(Len(rows) - 1) : \A j \in 1..width :
          \E x \in CellsAt(sh, data_start + i, j) :
              /\ x.value = rows[i + 1][j + 1]
              /\ x.style_from = <<data_start, j>>
    /\ \A x \in sh.cells :
          /\ x.col \in 1..width
          /\ x.row \in data_start..(data_start + Len(rows) - 1)
    /\ Cardinality(sh.cells) = Len(rows) * width

(***************************************************************************)
(* C3.  For every column spec of length n >= 2 and every inner group, the  *)
(* fan-out writes exactly the data columns (positions 1..n-2, never a key  *)
(* column), data column j to output column j, the i-th row of the group    *)
(* (0-based) to output row data_start + i.                                 *)
(***************************************************************************)
C3_WritesDataColumns ==
    NCols >= 2 =>
        \A w \in Workbooks : \A sh \in GenSheets(w) : HoldsColumns(w, sh, NCols - 2)

(***************************************************************************)
(* C3 as amended.  For every inner group the fan-out writes the columns at *)
(* positions 1, 2 and 3 of the column spec, as many of them as the spec    *)
(* has (min(3, n-1)), position j to output column j, the i-th row of the   *)
(* group (0-based) to output row data_start + i, and no other cell.        *)
(***************************************************************************)
C3_WritesPositions1To3 ==
    \A w \in Workbooks : \A sh \in GenSheets(w) : HoldsColumns(w, sh, Min(3, NCols - 1))

\* a sheet was generated from a spec of 4 columns: its third output column
\* holds the outer key
C3_Witness ==
    /\ NCols = 4
    /\ \E w \in Workbooks : \E sh \in GenSheets(w) : \E x \in sh.cells :
          x.col = 3 /\ x.value = w.key /\ x.row = data_start + 1

(***************************************************************************)
(* C4.  A data cell whose source value is absent is skipped: no value and  *)
(* no style is written at its output cell, while the present cells of the  *)
(* same row are written.                                                   *)
(***************************************************************************)
C4_AbsentCellSkipped ==
    \A w \in Workbooks : \A sh \in GenSheets(w) :
        LET rows == RowsOf(w.key, sh.key) IN
        \A i \in 0..(Len(rows) - 1) : \A j \in 1..Min(3, NCols - 2) :
            IF rows[i + 1][j + 1] = NaN
            THEN CellsAt(sh, data_start + i, j) = {}
            ELSE \E x \in CellsAt(sh, data_start + i, j) : x.value = rows[i + 1][j + 1]

(***************************************************************************)
(* C6.  The fan-out is all-or-nothing: once anything has failed the        *)
(* request has ended in an error that carries no archive, and an archive   *)
(* is returned only when nothing failed and it holds a workbook for every  *)
(* outer group.                                                            *)
(***************************************************************************)
C6_AllOrNothing ==
    /\ raised => pc = "error" /\ response.kind = "error" /\ response.body = <<>>
    /\ response.kind = "archive" =>
          /\ ~raised
          /\ pc = "done"
          /\ {response.body[i].key : i \in 1..Len(response.body)} = OuterKeys
          /\ Len(response.body) = Cardinality(OuterKeys)
          /\ OuterKeys # {} => template.ok
          /\ variant = "api" =>
                \A i \in 1..Len(TokensOf(usecols)) :
                    /\ IsPositiveDecimal(TokensOf(usecols)[i])
                    /\ PlaceSum(TokensOf(usecols)[i], 1) <= Len(data_sheet.header)

\* an outer group failed after the workbook of an earlier one was in the archive
C6_Witness == pc = "error" /\ Len(archive) >= 1 /\ response.kind = "error"

(***************************************************************************)
(* C7.  parse_numeric_positions trims the comma-separated tokens and drops *)
(* the empty ones; when every remaining token is a decimal integer >= 1 it *)
(* returns their values minus one, same length, same order (the empty text *)
(* gives the empty list); otherwise it fails with an error (status 400)    *)
(* that names the first offending token and returns no list.               *)
(***************************************************************************)
C7_ParseContract ==
    pc # "start" =>
        LET toks == TokensOf(usecols)
            bad == {i \in 1..Len(toks) : ~IsPositiveDecimal(toks[i])}
        IN IF bad = {}
           THEN /\ pc = "parsed"
                /\ Len(positions) = Len(toks)
                /\ \A i \in 1..Len(toks) : positions[i] = PlaceSum(toks[i], 1) - 1
           ELSE /\ pc = "error"
                /\ response.kind = "error" /\ response.status = 400
                /\ response.detail = toks[CHOOSE i \in bad : \A j \in bad : i <= j]
                /\ positions = <<>>

\* "4,5,6,9,11" was parsed to [3, 4, 5, 8, 10]
C7_Witness ==
    /\ pc = "parsed"
    /\ usecols = Txt4_5_6_9_11
    /\ positions = <<3, 4, 5, 8, 10>>

\* a text whose second token is the first offending one was refused
C7_WitnessError ==
    /\ pc = "error"
    /\ usecols = <<"1", ",", " ", "0">>
    /\ response.detail = <<"0">>

(***************************************************************************)
(* POST /merge: extract_archive and merge_archive (src/api/main.py).       *)
(***************************************************************************)
UpperCase == {"A", "K", "L", "S", "X", "Z"}

\* str.lower() on the letters that occur in names
LowerChar == [c \in UpperCase |->
    CASE c = "A" -> "a" [] c = "K" -> "k" [] c = "L" -> "l"
      [] c = "S" -> "s" [] c = "X" -> "x" [] c = "Z" -> "z"]
Lower(s) == [i \in 1..Len(s) |-> IF s[i] \in UpperCase THEN LowerChar[s[i]] ELSE s[i]]

\* str.endswith(suffix), str.startswith(prefix)
EndsWith(s, suffix) ==
    /\ Len(s) >= Len(suffix)
    /\ SubSeq(s, Len(s) - Len(suffix) + 1, Len(s)) = suffix
StartsWith(s, prefix) == Len(s) >= Len(prefix) /\ SubSeq(s, 1, Len(prefix)) = prefix

DotZip == <<".", "z", "i", "p">>
Dot7z == <<".", "7", "z">>
DotXls == <<".", "x", "l", "s">>
DotXlsx == <<".", "x", "l", "s", "x">>
PrefixHS == <<"H", "S">>

\* filename.lower().endswith((".xls", ".xlsx"))
IsExcelName(name) == EndsWith(Lower(name), DotXls) \/ EndsWith(Lower(name), DotXlsx)

\* extract_archive: the Excel entries of a .zip or .7z, an error otherwise or
\* when there is none
extract_archive(a) ==
    LET lower_name == Lower(a.file_name)
        ret == SelectSeq(a.entries, LAMBDA e : IsExcelName(e.name))
    IN IF ~(EndsWith(lower_name, DotZip) \/ EndsWith(lower_name, Dot7z))
       THEN [ok |-> FALSE, ret |-> <<>>]
       ELSE IF ret = <<>> THEN [ok |-> FALSE, ret |-> <<>>]
       ELSE [ok |-> TRUE, ret |-> ret]

RECURSIVE RFind(_, _, _)
\* str.rfind(c): the last index (1-based) of c at or before i, 0 when there is none
RFind(s, c, i) == IF i = 0 THEN 0 ELSE IF s[i] = c THEN i ELSE RFind(s, c, i - 1)

\* file_key: the 5th '-'-separated part of the base name when there is one, else
\* the base name; a trailing ".xlsx" is cut
FileKey(file_name) ==
    LET index_pos == RFind(file_name, "/", Len(file_name))
        base == IF index_pos # 0
                THEN SubSeq(file_name, index_pos + 1, Len(file_name)) ELSE file_name
        parts == Split(base, "-")
        key == IF Len(parts) > 4 THEN parts[5] ELSE base
    IN IF EndsWith(key, DotXlsx) THEN SubSeq(key, 1, Len(key) - 5) ELSE key

\* a sheet read with header=None is [ncols, rows]; df.shape[1] is ncols
\* df.dropna(axis=1, how="all"): the columns with a value in some row
DropEmptyColumns(m) ==
    LET keep == SelectSeq([c \in 1..m.ncols |-> c],
                          LAMBDA c : \E r \in 1..Len(m.rows) : m.rows[r][c] # NaN)
    IN [ncols |-> Len(keep),
        rows |-> [r \in 1..Len(m.rows) |-> [i \in 1..Len(keep) |-> m.rows[r][keep[i]]]]]

\* .iloc[3:, 1:]
HeaderRows == 3
DropHeader(m) ==
    [ncols |-> IF m.ncols > 1 THEN m.ncols - 1 ELSE 0,
     rows |-> [r \in 1..(IF Len(m.rows) > HeaderRows THEN Len(m.rows) - HeaderRows ELSE 0) |->
                  SubSeq(m.rows[r + HeaderRows], 2, m.ncols)]]

\* df[df.iloc[:, 0].notna()]
KeyNotNa(m) == [ncols |-> m.ncols, rows |-> SelectSeq(m.rows, LAMBDA row : row[1] # NaN)]

\* the block of one sheet: skip (shape[1] <= 1), raise (df.iloc[:, 0] on a frame
\* without columns) or the trimmed rows tagged with File and Sheet
ReadSheet(entry, sheet) ==
    IF sheet.cells.ncols <= 1 THEN [kind |-> "skip", frame |-> <<>>]
    ELSE LET trimmed == DropHeader(DropEmptyColumns(sheet.cells)) IN
         IF trimmed.ncols = 0 THEN [kind |-> "raise", frame |-> <<>>]
         ELSE [kind |-> "frame",
               frame |-> [entry |-> entry.name, File |-> FileKey(entry.name),
                          Sheet |-> sheet.name, rows |-> KeyNotNa(trimmed).rows]]

RECURSIVE ReadSheets(_, _, _)
\* the loop over hs_sheets: frames appended until a sheet raises
ReadSheets(entry, hs_sheets, frames) ==
    IF hs_sheets = <<>> THEN [frames |-> frames, failed |-> FALSE]
    ELSE LET r == ReadSheet(entry, Head(hs_sheets)) IN
         IF r.kind = "raise" THEN [frames |-> frames, failed |-> TRUE]
         ELSE ReadSheets(entry, Tail(hs_sheets),
                         IF r.kind = "frame" THEN Append(frames, r.frame) ELSE frames)

\* mutant: the check looks at the rows instead of the list of blocks
NoRowsCollected(frames) == \A i \in 1..Len(frames) : frames[i].rows = <<>>

\* `if not all_frames`
NoFrames(frames) == frames = <<>>

RECURSIVE Concat(_)
\* pd.concat(all_frames, ignore_index=True): the rows of all blocks, each with
\* the File and Sheet columns of its block
Concat(frames) ==
    IF frames = <<>> THEN <<>>
    ELSE LET f == Head(frames) IN
         [r \in 1..Len(f.rows) |->
             [entry |-> f.entry, File |-> f.File, Sheet |-> f.Sheet, cells |-> f.rows[r]]]
         \o Concat(Tail(frames))

MergedResponse(rows) == [kind |-> "merged", status |-> 200, detail |-> <<>>, body |-> rows]

\* archive_file.read() and extract_archive, 400 on any exception
ExtractArchive ==
    /\ m_pc = "start"
    /\ LET r == extract_archive(archive_file) IN
       IF r.ok
       THEN /\ m_pc' = "loop"
            /\ file_map' = r.ret
            /\ UNCHANGED m_response
       ELSE /\ m_pc' = "error"
            /\ m_response' = ErrorResponse(400, <<"extract">>)
            /\ UNCHANGED file_map
    /\ UNCHANGED <<archive_file, all_frames, skipped, procVars>>

\* one entry of file_map: the try block, whose except logs and goes on
ReadEntry ==
    /\ m_pc = "loop" /\ file_map # <<>>
    /\ LET e == Head(file_map)
           hs_sheets == SelectSeq(e.sheets, LAMBDA sh : StartsWith(sh.name, PrefixHS))
           r == ReadSheets(e, hs_sheets, all_frames)
       IN IF e.corrupt
          THEN /\ skipped' = skipped \cup {e.name}
               /\ UNCHANGED all_frames
          ELSE /\ all_frames' = r.frames
               /\ skipped' = IF r.failed THEN skipped \cup {e.name} ELSE skipped
    /\ file_map' = Tail(file_map)
    /\ UNCHANGED <<archive_file, m_pc, m_response, procVars>>

\* after the loop: 400 without blocks, else concat and return merged.xlsx
Finish ==
    /\ m_pc = "loop" /\ file_map = <<>>
    /\ IF NoFrames(all_frames)
       THEN /\ m_pc' = "error"
            /\ m_response' = ErrorResponse(400, <<"NoMatchingSheets">>)
       ELSE /\ m_pc' = "done"
            /\ m_response' = MergedResponse(Concat(all_frames))
    /\ UNCHANGED <<archive_file, file_map, all_frames, skipped, procVars>>

(***************************************************************************)
(* Inputs of /merge.                                                       *)
(***************************************************************************)
Grid(nrows, ncols, empty) ==
    [ncols |-> ncols,
     rows |-> [r \in 1..nrows |->
                  [c \in 1..ncols |-> IF <<r, c>> \in empty THEN NaN ELSE IntV(10 * r + c)]]]

\* two data rows under three header rows, the key of the second data row empty
CellsGood == Grid(5, 3, {<<5, 2>>})
\* header rows only
CellsHeaderOnly == Grid(3, 2, {})
\* a single column
CellsOneColumn == Grid(4, 1, {})
\* an empty first column and one column of data
CellsBlankLead == Grid(4, 2, {<<1, 1>>, <<2, 1>>, <<3, 1>>, <<4, 1>>})

SheetShapes == {"good", "header_only", "one_column", "blank_lead", "other_name"}

CellsOf(shape) ==
    CASE shape = "good" -> CellsGood
      [] shape = "header_only" -> CellsHeaderOnly
      [] shape = "one_column" -> CellsOneColumn
      [] shape = "blank_lead" -> CellsBlankLead
      [] shape = "other_name" -> CellsGood

\* the j-th sheet of a workbook: HS<j>, or X<j> for a sheet the prefix filter drops
MakeMergeSheet(j, shape) ==
    [name |-> (IF shape = "other_name" THEN <<"X">> ELSE PrefixHS) \o IntToStr(j),
     cells |-> CellsOf(shape)]

SheetLists ==
    {<<a>> : a \in SheetShapes}
    \cup {<<a, b>> : a, b \in SheetShapes \ {"other_name"}}
    \cup {<<"other_name", "good">>, <<"good", "other_name">>}

EntryKinds ==
    {[excel |-> TRUE, corrupt |-> FALSE, shapes |-> l] : l \in SheetLists}
    \cup {[excel |-> TRUE, corrupt |-> TRUE, shapes |-> <<>>],
          [excel |-> FALSE, corrupt |-> FALSE, shapes |-> <<>>]}

ExcelNames == <<<<"d", "/", "a", "-", "b", "-", "c", "-", "d", "-", "k", "1", "-", "e", ".", "x", "l", "s", "x">>,
                <<"K", "2", ".", "X", "L", "S", "X">>,
                <<"k", "3", ".", "x", "l", "s">>,
                <<"k", "4", "-", "a", ".", "x", "l", "s", "x">>>>

\* the i-th entry of the archive
MakeEntry(i, kind) ==
    [name |-> IF kind.excel THEN ExcelNames[i] ELSE <<"n">> \o IntToStr(i) \o <<".", "t", "x", "t">>,
     corrupt |-> kind.corrupt,
     sheets |-> [j \in 1..Len(kind.shapes) |-> MakeMergeSheet(j, kind.shapes[j])]]

MakeArchive(file_name, kinds) ==
    [file_name |-> file_name, entries |-> [i \in 1..Len(kinds) |-> MakeEntry(i, kinds[i])]]

ProcessIdle ==
    /\ variant = "api"
    /\ usecols = <<>>
    /\ data_sheet = MakeSheet(<<>>)
    /\ template = TplA
    /\ data_start = 4
    /\ pc = "idle"
    /\ positions = <<>>
    /\ usecols_list = <<>>
    /\ df = [cols |-> <<>>, rows |-> <<>>]
    /\ outer_todo = <<>>
    /\ k_value = None
    /\ wb = <<>>
    /\ inner_todo = <<>>
    /\ archive = <<>>
    /\ raised = FALSE
    /\ response = NoResponse

InitMerge ==
    /\ archive_file \in
          {MakeArchive(<<"a", ".", "z", "i", "p">>, kinds) : kinds \in SeqsUpTo(EntryKinds, MaxEntries)}
          \cup {MakeArchive(n, kinds) : n \in {<<"A", ".", "7", "Z">>, <<"a", ".", "r", "a", "r">>},
                                        kinds \in SeqsUpTo(EntryKinds, 1)}
    /\ m_pc = "start"
    /\ file_map = <<>>
    /\ all_frames = <<>>
    /\ skipped = {}
    /\ m_response = NoResponse
    /\ ProcessIdle

NextMerge == ExtractArchive \/ ReadEntry \/ Finish

SpecMerge == InitMerge /\ [][NextMerge]_vars

(***************************************************************************)
(* Vocabulary of the properties of /merge, stated on the uploaded archive. *)
(***************************************************************************)
\* the entries extract_archive keeps
KeptEntries ==
    {archive_file.entries[i] :
        i \in {q \in 1..Len(archive_file.entries) : IsExcelName(archive_file.entries[q].name)}}

IsHS(sheet) == Len(sheet.name) >= 2 /\ sheet.name[1] = "H" /\ sheet.name[2] = "S"

\* columns of a sheet that hold a value
FilledColumns(sheet) ==
    {c \in 1..sheet.cells.ncols :
        \E r \in 1..Len(sheet.cells.rows) : sheet.cells.rows[r][c] # NaN}

\* reading the sheet raises: several columns of which at most one holds a value
SheetRaises(sheet) == sheet.cells.ncols > 1 /\ Cardinality(FilledColumns(sheet)) <= 1

\* reading the entry fails: it cannot be opened, or a prefix-matching sheet raises
EntryFails(e) ==
    e.corrupt \/ \E j \in 1..Len(e.sheets) : IsHS(e.sheets[j]) /\ SheetRaises(e.sheets[j])

\* sheet j of entry e yields a block
YieldsBlock(e, j) ==
    /\ ~e.corrupt
    /\ IsHS(e.sheets[j]) /\ e.sheets[j].cells.ncols > 1
    /\ \A i \in 1..j : IsHS(e.sheets[i]) => ~SheetRaises(e.sheets[i])

\* the data rows of a sheet that survive trimming and filtering: the rows after
\* the third that hold a value in the sheet's second filled column
SurvivingRows(sheet) ==
    LET cols == FilledColumns(sheet)
        first == CHOOSE c \in cols : Cardinality({x \in cols : x < c}) = 1
    IN {r \in 4..Len(sheet.cells.rows) : sheet.cells.rows[r][first] # NaN}

MergeEnded == m_pc \in {"done", "error"} /\ extract_archive(archive_file).ok

(***************************************************************************)
(* C8.  An entry whose reading fails is skipped: the merged output holds   *)
(* no row of a failed entry, also of its sheets read before the failure,   *)
(* and holds every row of every block of every other entry.                *)
(***************************************************************************)
C8_FailedEntrySkippedWhole ==
    m_pc = "done" =>
        /\ \A e \in KeptEntries : EntryFails(e) =>
              \A i \in 1..Len(m_response.body) : m_response.body[i].entry # e.name
        /\ \A e \in KeptEntries : ~EntryFails(e) =>
              \A j \in 1..Len(e.sheets) :
                  (IsHS(e.sheets[j]) /\ e.sheets[j].cells.ncols > 1) =>
                      Cardinality({i \in 1..Len(m_response.body) :
                                      /\ m_response.body[i].entry = e.name
                                      /\ m_response.body[i].Sheet = e.sheets[j].name})
                      = Cardinality(SurvivingRows(e.sheets[j]))

(***************************************************************************)
(* C9.  /merge fails with NoMatchingSheets whenever no data row survives   *)
(* across all entries and matching sheets, and returns merged.xlsx only    *)
(* when at least one row remains.                                          *)
(***************************************************************************)
C9_FailsWhenNoRowSurvives ==
    /\ m_pc = "done" => Len(m_response.body) >= 1
    /\ (MergeEnded /\ m_pc = "error") => m_response.detail = <<"NoMatchingSheets">>

(***************************************************************************)
(* C9 as amended.  /merge fails with NoMatchingSheets exactly when no      *)
(* block was collected (no entry yielded a prefix-matching sheet of more   *)
(* than one column read without error), and returns merged.xlsx whenever   *)
(* a block was collected, also when every block is without rows.           *)
(***************************************************************************)
C9_FailsWhenNoBlock ==
    MergeEnded =>
        LET blocks == \E e \in KeptEntries : \E j \in 1..Len(e.sheets) : YieldsBlock(e, j)
        IN IF blocks
           THEN m_pc = "done" /\ m_response.kind = "merged"
           ELSE /\ m_pc = "error" /\ m_response.status = 400
                /\ m_response.detail = <<"NoMatchingSheets">>

\* merged.xlsx was returned without a single data row
C9_Witness == m_pc = "done" /\ m_response.kind = "merged" /\ m_response.body = <<>>

====
